---- MODULE Spec2Model ----
(***************************************************************************)
(* mr-cfg: maximal-repeat context-free grammar construction from a         *)
(* compressed suffix array.  The module models the LCP-interval generator  *)
(* (lcp.hpp, generator.hpp), the id assigner (identifier.hpp), the three   *)
(* nested-interval stabbers (interval.hpp) and the grammar builder         *)
(* (cfg.hpp).  Positions, suffix-array indices and alphabet indices are    *)
(* 0-based as in the source, so arrays are functions over 0..(n-1).        *)
(***************************************************************************)
EXTENDS Integers, Sequences, FiniteSets, TLC

(***************************************************************************)
(* Bounds of the model.                                                    *)
(***************************************************************************)
\* longest input text (without the sentinel)
MaxLen == 8
\* the bytes input texts are drawn from (byte 0 is the sentinel sdsl appends)
Alphabet == {1, 2, 3}

(***************************************************************************)
(* std::optional / nullable pointer: None is nullopt or NULL, Some(v) a    *)
(* present value.                                                          *)
(***************************************************************************)
None == <<>>
Some(v) == <<v>>
Min(S) == CHOOSE x \in S : \A y \in S : x <= y
Max(S) == CHOOSE x \in S : \A y \in S : y <= x
\* a std::map / std::unordered_map with one key set or added
Put(m, k, v) == [x \in (DOMAIN m) \cup {k} |-> IF x = k THEN v ELSE m[x]]
\* ... and with one key erased
Erase(m, k) == [x \in (DOMAIN m) \ {k} |-> m[x]]
EmptyMap == [x \in {} |-> 0]

(***************************************************************************)
(* The compressed suffix array (sdsl csa_wt built by construct_im): the    *)
(* text with the sentinel 0 appended, its suffix array and inverse, the    *)
(* Burrows-Wheeler transform held by the wavelet tree, the compact         *)
(* alphabet and the cumulative counts C.                                   *)
(***************************************************************************)
Texts == UNION {[0..(len - 1) -> Alphabet] : len \in 0..MaxLen}

RECURSIVE SuffixLess(_, _, _)
SuffixLess(text, a, b) ==
  IF text[a] # text[b] THEN text[a] < text[b]
  ELSE SuffixLess(text, a + 1, b + 1)

BuildCsa(T) ==
  LET len == Cardinality(DOMAIN T)
      n == len + 1
      text == [p \in 0..len |-> IF p < len THEN T[p] ELSE 0]
      isa == [p \in 0..len |->
                Cardinality({q \in 0..len : q # p /\ SuffixLess(text, q, p)})]
      sa == [j \in 0..len |-> CHOOSE p \in 0..len : isa[p] = j]
      chars == {text[p] : p \in 0..len}
      sigma == Cardinality(chars)
      char2comp == [c \in chars |-> Cardinality({d \in chars : d < c})]
      comp2char == [k \in 0..(sigma - 1) |-> CHOOSE c \in chars : char2comp[c] = k]
      C == [k \in 0..sigma |->
              Cardinality({p \in 0..len : char2comp[text[p]] < k})]
      bwt == [j \in 0..len |-> text[(sa[j] + len) % n]]
  IN [size |-> n, sigma |-> sigma, text |-> text, sa |-> sa, isa |-> isa,
      char2comp |-> char2comp, comp2char |-> comp2char, C |-> C, bwt |-> bwt]

\* sdsl::interval_symbols over the wavelet tree: the distinct symbols of
\* bwt[lb..rb-1], and for a symbol c its rank before lb and before rb
IntervalSymbols(csa, lb, rb) == {csa.bwt[j] : j \in lb..(rb - 1)}
RankC(csa, c, p) == Cardinality({j \in 0..(p - 1) : csa.bwt[j] = c})

(***************************************************************************)
(* lcp_interval_generator: the coroutine frame.  pc is "initial" before    *)
(* the first resume, "running" inside the loops, "suspended" at co_yield   *)
(* and "final" after the body returned.  value is the promise's            *)
(* std::optional; interval and loc_max are the caller's output slots the   *)
(* coroutine holds by reference.                                           *)
(***************************************************************************)
GenInit ==
  [pc |-> "initial", value |-> None, interval |-> <<>>, loc_max |-> FALSE,
   extensions |-> {}, finished |-> <<>>, lcp_value |-> 0, last_idx |-> 0,
   last_lb |-> 0, queues |-> <<>>, queue_sizes |-> <<>>, intervals |-> 0,
   i |-> 0]

\* head of `while (intervals)`: leave the loop and return, or start the round
\* for the current LCP value
GenWhileHead(csa, f) ==
  IF f.intervals = 0
  THEN [f EXCEPT !.pc = "final", !.value = None]
  ELSE [f EXCEPT !.pc = "running",
                 !.interval = [@ EXCEPT ![0] = f.lcp_value],
                 !.queue_sizes = [k \in 0..(csa.sigma - 1) |-> Len(f.queues[k]) \div 2],
                 !.i = 0]

\* the code before the loop, run by the first resume
GenPrologue(csa, f) ==
  GenWhileHead(csa,
    [f EXCEPT !.interval = [k \in 0..2 |-> 0],
              !.extensions = {},
              !.finished = [p \in 0..csa.size |-> p = 0 \/ p = csa.size],
              !.lcp_value = 0, !.last_idx = 0, !.last_lb = 0,
              !.loc_max = TRUE,
              !.queues = [k \in 0..(csa.sigma - 1) |-> <<csa.C[k], csa.C[k + 1]>>],
              !.queue_sizes = [k \in 0..(csa.sigma - 1) |-> 0],
              !.intervals = csa.sigma])

\* a variant of the visit that takes an interval only while its right
\* boundary is unfinished
GenVisitUnfinishedOnly(csa, f) ==
  LET i == f.i
      lb == f.queues[i][1]
      rb == f.queues[i][2]
      popped == [f.queues EXCEPT ![i] = Tail(Tail(@))]
      visit == ~f.finished[rb]
      symbols == IF visit THEN IntervalSymbols(csa, lb, rb) ELSE {}
      queued == symbols \ {0}
      pushed == [k \in 0..(csa.sigma - 1) |->
                   IF csa.comp2char[k] \in queued
                   THEN LET c == csa.comp2char[k]
                        IN Append(Append(popped[k], csa.C[k] + RankC(csa, c, lb)),
                                  csa.C[k] + RankC(csa, c, rb))
                   ELSE popped[k]]
      g == [f EXCEPT !.queue_sizes = [@ EXCEPT ![i] = @ - 1],
                     !.queues = pushed,
                     !.intervals = @ - 1 + Cardinality(queued),
                     !.extensions = @ \cup symbols]
  IN IF ~visit THEN g
     ELSE [g EXCEPT !.finished = [@ EXCEPT ![rb] = TRUE],
                    !.last_lb = IF f.last_idx # lb THEN lb ELSE @,
                    !.last_idx = rb]

\* a variant of the visit that queues the left extensions of every dequeued
\* interval
GenVisitQueuingAlways(csa, f) ==
  LET i == f.i
      lb == f.queues[i][1]
      rb == f.queues[i][2]
      popped == [f.queues EXCEPT ![i] = Tail(Tail(@))]
      visit == ~f.finished[rb] \/ f.last_idx = lb
      symbols == IntervalSymbols(csa, lb, rb)
      queued == symbols \ {0}
      pushed == [k \in 0..(csa.sigma - 1) |->
                   IF csa.comp2char[k] \in queued
                   THEN LET c == csa.comp2char[k]
                        IN Append(Append(popped[k], csa.C[k] + RankC(csa, c, lb)),
                                  csa.C[k] + RankC(csa, c, rb))
                   ELSE popped[k]]
      g == [f EXCEPT !.queue_sizes = [@ EXCEPT ![i] = @ - 1],
                     !.queues = pushed,
                     !.intervals = @ - 1 + Cardinality(queued),
                     !.extensions = @ \cup symbols]
  IN IF ~visit THEN g
     ELSE IF ~f.finished[rb]
     THEN [g EXCEPT !.finished = [@ EXCEPT ![rb] = TRUE],
                    !.last_lb = IF f.last_idx # lb THEN lb ELSE @,
                    !.last_idx = rb]
     ELSE [g EXCEPT !.loc_max = IF lb # rb - 1 THEN FALSE ELSE @,
                    !.interval = [@ EXCEPT ![1] = f.last_lb, ![2] = rb - 1],
                    !.value = Some(Cardinality(g.extensions)),
                    !.pc = "suspended"]

\* one pass of the body of `while (queue_sizes[i])`: dequeue an interval,
\* queue its left extensions, and open, extend or close (co_yield) the
\* current LCP-interval
GenVisit(csa, f) ==
  LET i == f.i
      lb == f.queues[i][1]
      rb == f.queues[i][2]
      popped == [f.queues EXCEPT ![i] = Tail(Tail(@))]
      visit == ~f.finished[rb] \/ f.last_idx = lb
      symbols == IF visit THEN IntervalSymbols(csa, lb, rb) ELSE {}
      queued == symbols \ {0}
      pushed == [k \in 0..(csa.sigma - 1) |->
                   IF csa.comp2char[k] \in queued
                   THEN LET c == csa.comp2char[k]
                        IN Append(Append(popped[k], csa.C[k] + RankC(csa, c, lb)),
                                  csa.C[k] + RankC(csa, c, rb))
                   ELSE popped[k]]
      g == [f EXCEPT !.queue_sizes = [@ EXCEPT ![i] = @ - 1],
                     !.queues = pushed,
                     !.intervals = @ - 1 + Cardinality(queued),
                     !.extensions = @ \cup symbols]
  IN IF ~visit THEN g
     ELSE IF ~f.finished[rb]
     THEN [g EXCEPT !.finished = [@ EXCEPT ![rb] = TRUE],
                    !.last_lb = IF f.last_idx # lb THEN lb ELSE @,
                    !.last_idx = rb]
     ELSE [g EXCEPT !.loc_max = IF lb # rb - 1 THEN FALSE ELSE @,
                    !.interval = [@ EXCEPT ![1] = f.last_lb, ![2] = rb - 1],
                    !.value = Some(Cardinality(g.extensions)),
                    !.pc = "suspended"]

\* a variant of the resumption after co_yield that keeps the extensions
GenAfterYieldKeeping(f) ==
  [f EXCEPT !.pc = "running", !.last_lb = 0, !.last_idx = 0, !.loc_max = TRUE]

\* the code after co_yield, run when the coroutine is resumed from it
GenAfterYield(f) ==
  [f EXCEPT !.pc = "running", !.extensions = {}, !.last_lb = 0,
            !.last_idx = 0, !.loc_max = TRUE]

\* a variant of the step that starts the next round under the same LCP value
GenStepSameValue(csa, f) ==
  IF f.i < csa.sigma /\ f.queue_sizes[f.i] > 0 THEN GenVisit(csa, f)
  ELSE IF f.i < csa.sigma THEN [f EXCEPT !.i = @ + 1]
  ELSE GenWhileHead(csa, f)

\* one step of the running coroutine
GenStep(csa, f) ==
  IF f.i < csa.sigma /\ f.queue_sizes[f.i] > 0 THEN GenVisit(csa, f)
  ELSE IF f.i < csa.sigma THEN [f EXCEPT !.i = @ + 1]
  ELSE GenWhileHead(csa, [f EXCEPT !.lcp_value = @ + 1])

RECURSIVE GenRun(_, _)
GenRun(csa, f) == IF f.pc = "running" THEN GenRun(csa, GenStep(csa, f)) ELSE f

\* handle.resume(): run to the next co_yield or to the end of the body
GenResume(csa, f) ==
  IF f.pc = "initial" THEN GenRun(csa, GenPrologue(csa, f))
  ELSE GenRun(csa, GenAfterYield(f))

\* Promise::finished()
GenFinished(f) == f.value = None

(***************************************************************************)
(* OnlineLcpIdentifiers: next_id is the field _id, repeat_ids the map      *)
(* _repeat_ids from text position to id.                                   *)
(***************************************************************************)
IdentifiersInit(csa) == [next_id |-> csa.sigma, repeat_ids |-> EmptyMap]

\* a variant of getNextId that returns the id allocated last
getNextIdAllocated(r) == r.next_id - 1

getNextId(r) == r.next_id

\* a variant of getId that allocates the number of live keys past sigma
getIdCounting(csa, r, value, begin, end) ==
  LET first_position == csa.sa[begin] + value
      id == csa.sigma + Cardinality(DOMAIN r.repeat_ids)
  IN IF first_position \notin DOMAIN r.repeat_ids
     THEN [next_id |-> id + 1,
           repeat_ids |-> Put(r.repeat_ids, first_position, id)]
     ELSE r

\* the state after getId, which returns IdOf of that state
getId(csa, r, value, begin, end) ==
  LET first_position == csa.sa[begin] + value
  IN IF first_position \notin DOMAIN r.repeat_ids
     THEN [next_id |-> r.next_id + 1,
           repeat_ids |-> Put(r.repeat_ids, first_position, r.next_id)]
     ELSE r

IdOf(csa, r, value, begin, end) == r.repeat_ids[csa.sa[begin] + value]

\* a variant of removeId that keeps the key
removeIdKeeping(csa, r, value, begin, end) ==
  LET first_position == csa.sa[begin] + value
  IN IF first_position \in DOMAIN r.repeat_ids
     THEN [r EXCEPT !.repeat_ids = Put(@, first_position, @[first_position])]
     ELSE r

removeId(csa, r, value, begin, end) ==
  LET first_position == csa.sa[begin] + value
  IN IF first_position \in DOMAIN r.repeat_ids
     THEN [r EXCEPT !.repeat_ids = Erase(@, first_position)]
     ELSE r

(***************************************************************************)
(* OnlineNestedIntervalStabber: lookup is the sorted map _lookup.          *)
(***************************************************************************)
\* std::numeric_limits<element_type>::max(), the placeholder of the online
\* stabber, for an 8-bit element_type
PLACEHOLDER == 255

OnlineInit == [lookup |-> EmptyMap]

OnlineStab(s, i) ==
  LET below == {k \in DOMAIN s.lookup : k <= i}
  IN IF below = {} THEN None
     ELSE IF s.lookup[Max(below)] = PLACEHOLDER THEN None
     ELSE Some(s.lookup[Max(below)])

\* a variant of update that assigns the end position instead of emplacing it
OnlineUpdateAssigning(s, begin, end, id) ==
  LET parent_id == OnlineStab(s, begin)
      assigned == IF parent_id = None
                  THEN Put(s.lookup, end + 1, PLACEHOLDER)
                  ELSE Put(s.lookup, end + 1, parent_id[1])
  IN [lookup |-> Put(assigned, begin, id)]

OnlineUpdate(s, begin, end, id) ==
  LET parent_id == OnlineStab(s, begin)
      emplaced == IF end + 1 \in DOMAIN s.lookup THEN s.lookup
                  ELSE IF parent_id = None
                  THEN Put(s.lookup, end + 1, PLACEHOLDER)
                  ELSE Put(s.lookup, end + 1, parent_id[1])
  IN [lookup |-> Put(emplaced, begin, id)]

(***************************************************************************)
(* FastNestedIntervalStabber: lookup is _lookup, position_bits the set of  *)
(* positions whose bit is set in the roaring bitmap _position_bits.        *)
(***************************************************************************)
FastInit == [lookup |-> EmptyMap, position_bits |-> {}]

FastStab(s, i) ==
  LET below == {k \in s.position_bits : k <= i}
      rank == Cardinality(below)
  IN IF rank = 0 THEN None
     ELSE IF Max(below) \in DOMAIN s.lookup THEN Some(s.lookup[Max(below)])
     ELSE None

\* a variant of update that records the parent at the end position even
\* when its bit is already set
FastUpdateAssigning(s, begin, end, id) ==
  LET parent_id == FastStab(s, begin)
      ended == [position_bits |-> s.position_bits \cup {end + 1},
                lookup |-> IF parent_id # None
                           THEN Put(s.lookup, end + 1, parent_id[1])
                           ELSE s.lookup]
  IN [position_bits |-> ended.position_bits \cup {begin},
      lookup |-> Put(ended.lookup, begin, id)]

FastUpdate(s, begin, end, id) ==
  LET parent_id == FastStab(s, begin)
      ended == IF end + 1 \notin s.position_bits
               THEN [position_bits |-> s.position_bits \cup {end + 1},
                     lookup |-> IF parent_id # None
                                THEN Put(s.lookup, end + 1, parent_id[1])
                                ELSE s.lookup]
               ELSE s
  IN [position_bits |-> ended.position_bits \cup {begin},
      lookup |-> Put(ended.lookup, begin, id)]

(***************************************************************************)
(* OptimalNestedIntervalStabber.  A binary id (roaring::Roaring64Map) is   *)
(* the set of its bits; lookup is _lookup, position_bits the set of set    *)
(* positions of _position_bits, update_id is *_update_id, id_map _id_map.  *)
(***************************************************************************)
\* the intervals a consumer of the generator sees: next() skips one yield,
\* the range-for resumes in begin() and in ++, and stops when the promise
\* holds no value.  f is the frame after a resume.
RECURSIVE GenCollect(_, _, _)
GenCollect(csa, f, acc) ==
  IF GenFinished(f) THEN acc
  ELSE GenCollect(csa, GenResume(csa, f),
                  Append(acc, [l |-> f.interval[0], lb |-> f.interval[1],
                               rb |-> f.interval[2], left_extensions |-> f.value[1]]))

LcpIntervals(csa) ==
  GenCollect(csa, GenResume(csa, GenResume(csa, GenInit)), <<>>)

\* the maximal repeats (more than one left extension), in generator order
MaximalIntervals(csa) ==
  SelectSeq(LcpIntervals(csa), LAMBDA v : v.left_extensions > 1)

\* pop all end positions equal to i, recording the parent id at i+1
RECURSIVE OptimalPop(_, _)
OptimalPop(st, i) ==
  IF st.end_stack # <<>> /\ Head(st.end_stack) = i
  THEN LET ids == Tail(st.id_stack)
       IN OptimalPop([st EXCEPT !.end_stack = Tail(@),
                                !.id_stack = ids,
                                !.lookup = IF Len(ids) > 1
                                           THEN Put(@, i + 1, Head(ids))
                                           ELSE @], i)
  ELSE st

\* give an id to each interval that starts at the current position
RECURSIVE OptimalPush(_, _)
OptimalPush(st, ends) ==
  IF ends = <<>> THEN st
  ELSE OptimalPush([st EXCEPT !.end_stack = <<Head(ends)>> \o @,
                              !.id_stack = <<Head(@) \cup {st.num_repeats}>> \o @,
                              !.num_repeats = @ - 1],
                   Tail(ends))

RECURSIVE OptimalWalk(_, _, _, _)
OptimalWalk(st, repeat_bins, i, last) ==
  IF i >= last THEN st
  ELSE LET popped == OptimalPop(st, i)
           pushed == OptimalPush(popped, repeat_bins[i])
       IN OptimalWalk(IF repeat_bins[i] # <<>>
                      THEN [pushed EXCEPT !.lookup = Put(@, i, Head(pushed.id_stack))]
                      ELSE popped,
                      repeat_bins, i + 1, last)

OptimalInitialize(csa) ==
  LET n == csa.size
      repeats == MaximalIntervals(csa)
      num_repeats == Len(repeats)
      position_bits == {repeats[k].lb : k \in 1..num_repeats}
                       \cup {repeats[k].rb + 1 : k \in {x \in 1..num_repeats : repeats[x].rb + 1 < n}}
      repeat_bins == [b \in 0..(n - 1) |->
                        LET at == SelectSeq(repeats, LAMBDA v : v.lb = b)
                        IN [k \in 1..Len(at) |-> at[k].rb]]
      walked == OptimalWalk([end_stack |-> <<>>, id_stack |-> <<{}>>,
                             lookup |-> EmptyMap, num_repeats |-> num_repeats - 1],
                            repeat_bins, 0, n - 1)
  IN [lookup |-> walked.lookup, position_bits |-> position_bits,
      update_id |-> {}, id_map |-> EmptyMap]

\* _stab: the binary id stored at the last set position at or before i
OptimalInnerStab(s, i) ==
  LET below == {k \in s.position_bits : k <= i}
      rank == Cardinality(below)
  IN IF rank = 0 THEN None
     ELSE IF Max(below) \in DOMAIN s.lookup THEN Some(s.lookup[Max(below)])
     ELSE None

OptimalStab(s, i) ==
  LET binary_id == OptimalInnerStab(s, i)
  IN IF binary_id = None THEN None
     ELSE LET ancestor_id == s.update_id \cap binary_id[1]
          IN IF ancestor_id # {} /\ Min(ancestor_id) \in DOMAIN s.id_map
             THEN Some(s.id_map[Min(ancestor_id)])
             ELSE None

OptimalUpdate(s, begin, end, id) ==
  LET begin_id == OptimalInnerStab(s, begin)
      end_id == OptimalInnerStab(s, end)
      interval_id == begin_id[1] \cap end_id[1]
      interval_bit == Min(interval_id)
  IN [s EXCEPT !.id_map = Put(@, interval_bit, id),
               !.update_id = @ \cup interval_id]

(***************************************************************************)
(* NestedIntervalStabber: the virtual calls of csaToCfg and                *)
(* computeProduction, dispatched on the selected algorithm.                *)
(***************************************************************************)
Algorithms == {"OPTIMAL", "ONLINE", "FAST"}

NewStabber(algorithm, csa) ==
  IF algorithm = "OPTIMAL" THEN OptimalInitialize(csa)
  ELSE IF algorithm = "ONLINE" THEN OnlineInit
  ELSE FastInit

Stab(algorithm, s, i) ==
  IF algorithm = "OPTIMAL" THEN OptimalStab(s, i)
  ELSE IF algorithm = "ONLINE" THEN OnlineStab(s, i)
  ELSE FastStab(s, i)

Update(algorithm, s, begin, end, id) ==
  IF algorithm = "OPTIMAL" THEN OptimalUpdate(s, begin, end, id)
  ELSE IF algorithm = "ONLINE" THEN OnlineUpdate(s, begin, end, id)
  ELSE FastUpdate(s, begin, end, id)

(***************************************************************************)
(* computeProduction: the production covering text positions i..n-1.       *)
(***************************************************************************)
RECURSIVE computeProduction(_, _, _, _, _, _)
computeProduction(csa, algorithm, stabber, sizes, i, n) ==
  IF i >= n THEN <<>>
  ELSE LET j == csa.isa[i]
           rule_id == Stab(algorithm, stabber, j)
       IN IF rule_id = None
          THEN <<csa.char2comp[csa.text[i]]>>
               \o computeProduction(csa, algorithm, stabber, sizes, i + 1, n)
          ELSE <<rule_id[1]>>
               \o computeProduction(csa, algorithm, stabber, sizes,
                                    i + sizes[rule_id[1]], n)

\* the value of i when the loop of computeProduction is left
RECURSIVE computeProductionExit(_, _, _, _, _, _)
computeProductionExit(csa, algorithm, stabber, sizes, i, n) ==
  IF i >= n THEN i
  ELSE LET j == csa.isa[i]
           rule_id == Stab(algorithm, stabber, j)
       IN IF rule_id = None
          THEN computeProductionExit(csa, algorithm, stabber, sizes, i + 1, n)
          ELSE computeProductionExit(csa, algorithm, stabber, sizes,
                                     i + sizes[rule_id[1]], n)

\* a call of computeProduction: its span, what it returns and where its
\* loop is left
ProductionCall(csa, algorithm, stabber, sizes, i, n) ==
  [i |-> i, n |-> n,
   production |-> computeProduction(csa, algorithm, stabber, sizes, i, n),
   exit |-> computeProductionExit(csa, algorithm, stabber, sizes, i, n)]

(***************************************************************************)
(* csaToCfg.  The builder's data is the record b: the id assigner          *)
(* repeat_ids, rule_production_sizes, cfg, the stabber intervals, and      *)
(* four histories: updated, the update calls made, in order, discarded,    *)
(* the ids whose rule was erased, productions, the calls of                *)
(* computeProduction, in order, and processed, what each pass of the loop  *)
(* body read from the generator's slots, in order.                         *)
(***************************************************************************)
BuilderInit(csa, algorithm) ==
  [repeat_ids |-> IdentifiersInit(csa),
   rule_production_sizes |-> [id \in 0..(csa.sigma - 1) |-> 1],
   cfg |-> EmptyMap,
   intervals |-> NewStabber(algorithm, csa),
   updated |-> <<>>,
   discarded |-> {},
   productions |-> <<>>,
   processed |-> <<>>]

\* the update call of the loop body
BodyUpdate(algorithm, stabber, begin, end, id) ==
  Update(algorithm, stabber, begin, end, id)

\* a variant of the rule step that keeps productions of one symbol
BodyRuleKeepingUnit(csa, algorithm, b, interval, repeat_id) ==
  LET i == csa.sa[interval[1]]
      n == i + b.rule_production_sizes[repeat_id]
      production == computeProduction(csa, algorithm, b.intervals,
                                      b.rule_production_sizes, i, n)
      removed == removeId(csa, b.repeat_ids, interval[0], interval[1],
                          interval[2])
  IN IF Len(production) > 0
     THEN [b EXCEPT !.cfg = Put(@, repeat_id, production),
                    !.intervals = BodyUpdate(algorithm, @, interval[1],
                                             interval[2], repeat_id),
                    !.updated = Append(@, [l |-> interval[0],
                                           begin |-> interval[1],
                                           end |-> interval[2],
                                           id |-> repeat_id]),
                    !.repeat_ids = removed]
     ELSE [b EXCEPT !.cfg = Erase(@, repeat_id),
                    !.rule_production_sizes = Erase(@, repeat_id),
                    !.discarded = @ \cup {repeat_id},
                    !.repeat_ids = removed]

\* a variant of the rule step that updates the stabber for a discarded rule too
BodyRuleUpdatingDiscarded(csa, algorithm, b, interval, repeat_id) ==
  LET i == csa.sa[interval[1]]
      n == i + b.rule_production_sizes[repeat_id]
      production == computeProduction(csa, algorithm, b.intervals,
                                      b.rule_production_sizes, i, n)
      removed == removeId(csa, b.repeat_ids, interval[0], interval[1],
                          interval[2])
      stabber == BodyUpdate(algorithm, b.intervals, interval[1], interval[2],
                            repeat_id)
  IN IF Len(production) > 1
     THEN [b EXCEPT !.cfg = Put(@, repeat_id, production),
                    !.intervals = stabber,
                    !.updated = Append(@, [l |-> interval[0],
                                           begin |-> interval[1],
                                           end |-> interval[2],
                                           id |-> repeat_id]),
                    !.repeat_ids = removed]
     ELSE [b EXCEPT !.cfg = Erase(@, repeat_id),
                    !.intervals = stabber,
                    !.discarded = @ \cup {repeat_id},
                    !.repeat_ids = removed]

\* a variant of the rule step that updates the stabber before it computes
\* the production
BodyRuleUpdatingFirst(csa, algorithm, b, interval, repeat_id) ==
  LET i == csa.sa[interval[1]]
      n == i + b.rule_production_sizes[repeat_id]
      stabber == BodyUpdate(algorithm, b.intervals, interval[1], interval[2],
                            repeat_id)
      production == computeProduction(csa, algorithm, stabber,
                                      b.rule_production_sizes, i, n)
      removed == removeId(csa, b.repeat_ids, interval[0], interval[1],
                          interval[2])
  IN [b EXCEPT !.cfg = Put(@, repeat_id, production),
               !.intervals = stabber,
               !.updated = Append(@, [l |-> interval[0],
                                      begin |-> interval[1],
                                      end |-> interval[2],
                                      id |-> repeat_id]),
               !.repeat_ids = removed]

\* a variant of the rule step whose span is one position too long
BodyRuleSpanningOneMore(csa, algorithm, b, interval, repeat_id) ==
  LET i == csa.sa[interval[1]]
      n == i + b.rule_production_sizes[repeat_id] + 1
      production == computeProduction(csa, algorithm, b.intervals,
                                      b.rule_production_sizes, i, n)
      removed == removeId(csa, b.repeat_ids, interval[0], interval[1],
                          interval[2])
  IN IF Len(production) > 1
     THEN [b EXCEPT !.cfg = Put(@, repeat_id, production),
                    !.intervals = BodyUpdate(algorithm, @, interval[1],
                                             interval[2], repeat_id),
                    !.updated = Append(@, [l |-> interval[0],
                                           begin |-> interval[1],
                                           end |-> interval[2],
                                           id |-> repeat_id]),
                    !.repeat_ids = removed]
     ELSE [b EXCEPT !.cfg = Erase(@, repeat_id),
                    !.rule_production_sizes = Erase(@, repeat_id),
                    !.discarded = @ \cup {repeat_id},
                    !.repeat_ids = removed]

\* a variant of the rule step that gives the interval to update twice
BodyRuleUpdatingTwice(csa, algorithm, b, interval, repeat_id) ==
  LET i == csa.sa[interval[1]]
      n == i + b.rule_production_sizes[repeat_id]
      production == computeProduction(csa, algorithm, b.intervals,
                                      b.rule_production_sizes, i, n)
      removed == removeId(csa, b.repeat_ids, interval[0], interval[1],
                          interval[2])
      call == [l |-> interval[0], begin |-> interval[1],
               end |-> interval[2], id |-> repeat_id]
  IN IF Len(production) > 1
     THEN [b EXCEPT !.cfg = Put(@, repeat_id, production),
                    !.intervals =
                       BodyUpdate(algorithm,
                                  BodyUpdate(algorithm, @, interval[1],
                                             interval[2], repeat_id),
                                  interval[1], interval[2], repeat_id),
                    !.updated = Append(Append(@, call), call),
                    !.repeat_ids = removed]
     ELSE [b EXCEPT !.cfg = Erase(@, repeat_id),
                    !.rule_production_sizes = Erase(@, repeat_id),
                    !.discarded = @ \cup {repeat_id},
                    !.repeat_ids = removed]

\* the rule of a maximal interval: install it and update the stabber, or
\* erase it; then remove the interval's id.  b already holds the id and the
\* incremented size.
BodyRule(csa, algorithm, b, interval, repeat_id) ==
  LET i == csa.sa[interval[1]]
      n == i + b.rule_production_sizes[repeat_id]
      production == computeProduction(csa, algorithm, b.intervals,
                                      b.rule_production_sizes, i, n)
      removed == removeId(csa, b.repeat_ids, interval[0], interval[1],
                          interval[2])
  IN IF Len(production) > 1
     THEN [b EXCEPT !.cfg = Put(@, repeat_id, production),
                    !.intervals = BodyUpdate(algorithm, @, interval[1],
                                             interval[2], repeat_id),
                    !.updated = Append(@, [l |-> interval[0],
                                           begin |-> interval[1],
                                           end |-> interval[2],
                                           id |-> repeat_id]),
                    !.repeat_ids = removed]
     ELSE [b EXCEPT !.cfg = Erase(@, repeat_id),
                    !.rule_production_sizes = Erase(@, repeat_id),
                    !.discarded = @ \cup {repeat_id},
                    !.repeat_ids = removed]

\* one pass of the body of the range-for, f being the generator's frame
LoopBodyResult(csa, algorithm, b, f) ==
  LET left_extensions == f.value
      interval == f.interval
      got == getId(csa, b.repeat_ids, interval[0], interval[1], interval[2])
      repeat_id == IdOf(csa, got, interval[0], interval[1], interval[2])
      counted == [b EXCEPT !.repeat_ids = got,
                           !.rule_production_sizes =
                              Put(@, repeat_id,
                                  IF repeat_id \in DOMAIN @ THEN @[repeat_id] + 1
                                  ELSE 1),
                           !.processed =
                              Append(@, [l |-> interval[0], lb |-> interval[1],
                                         rb |-> interval[2],
                                         left_extensions |-> left_extensions[1]])]
      i == csa.sa[interval[1]]
      n == i + counted.rule_production_sizes[repeat_id]
  IN IF left_extensions[1] > 1
     THEN [BodyRule(csa, algorithm, counted, interval, repeat_id) EXCEPT
             !.productions =
                Append(@, ProductionCall(csa, algorithm, counted.intervals,
                                         counted.rule_production_sizes, i, n))]
     ELSE counted

\* the start rule: the grammar and the id returned
StartRuleResult(csa, algorithm, b) ==
  LET id == getNextId(b.repeat_ids)
  IN [cfg |-> Put(b.cfg, id,
                  computeProduction(csa, algorithm, b.intervals,
                                    b.rule_production_sizes, 0, csa.size)),
      start_rule |-> id,
      call |-> ProductionCall(csa, algorithm, b.intervals,
                              b.rule_production_sizes, 0, csa.size)]

\* the whole function: skip one yield, loop over the rest, add the start rule
RECURSIVE RunLoop(_, _, _, _)
RunLoop(csa, algorithm, b, f) ==
  IF GenFinished(f) THEN b
  ELSE RunLoop(csa, algorithm, LoopBodyResult(csa, algorithm, b, f),
               GenResume(csa, f))

csaToCfg(csa, algorithm) ==
  StartRuleResult(csa, algorithm,
    RunLoop(csa, algorithm, BuilderInit(csa, algorithm),
            GenResume(csa, GenResume(csa, GenInit))))

(***************************************************************************)
(* csaToCfg as a state machine.  pc is the builder's position: "skip"      *)
(* before lcp_intervals.next(), "begin" before the range-for's begin(),    *)
(* "body" before a loop body, "incr" before the iterator's ++, "start"     *)
(* before the start rule is computed, "done" at the return.                *)
(***************************************************************************)
VARIABLES
  csa,                    \* the compressed suffix array of the input
  algorithm,              \* the selected stabber
  pc,
  lcp_intervals,          \* the generator, with the slots interval, loc_max
  builder,                \* the builder's data
  start_rule,             \* None until the start rule is named
  online,                 \* an OnlineNestedIntervalStabber used on its own
  fast,                   \* a FastNestedIntervalStabber given the same calls
  calls,                  \* history: the update calls given to online and fast
  maximal,                \* the maximal repeats an optimal stabber used on
                          \* its own was built over, in generator order
  yields,                 \* history: the intervals a generator used on its
                          \* own has yielded
  visits,                 \* history: the intervals a generator used on its
                          \* own has dequeued since its last yield
  idcalls,                \* history: the calls given to an id assigner used
                          \* on its own
  process                 \* main: its arguments, its input file and its exit
                          \* status; None where csaToCfg runs without main

vars == <<csa, algorithm, pc, lcp_intervals, builder, start_rule, online,
          fast, calls, maximal, yields, visits, idcalls, process>>
buildervars == <<csa, algorithm, pc, lcp_intervals, builder, start_rule>>
stabbervars == <<online, fast, calls, maximal>>
sidevars == <<yields, visits, idcalls, process>>

\* the fields of the builder's data, under the source's names
repeat_ids == builder.repeat_ids
rule_production_sizes == builder.rule_production_sizes
cfg == builder.cfg
intervals == builder.intervals
updated == builder.updated
discarded == builder.discarded
productions == builder.productions
processed == builder.processed

StabbersInit ==
  /\ online = OnlineInit
  /\ fast = FastInit
  /\ calls = <<>>
  /\ maximal = <<>>

SideInit ==
  /\ yields = <<>>
  /\ visits = <<>>
  /\ idcalls = <<>>
  /\ process = None

Init ==
  /\ csa \in {BuildCsa(T) : T \in Texts}
  /\ algorithm \in Algorithms
  /\ pc = "skip"
  /\ lcp_intervals = GenInit
  /\ builder = BuilderInit(csa, algorithm)
  /\ start_rule = None
  /\ StabbersInit
  /\ SideInit

\* the loop condition of the range-for: it != end
AfterResume(f) == IF GenFinished(f) THEN "start" ELSE "body"

\* lcp_intervals.next(): skip the length 0 LCP-interval
SkipFirst ==
  /\ pc = "skip"
  /\ lcp_intervals' = GenResume(csa, lcp_intervals)
  /\ pc' = "begin"
  /\ UNCHANGED <<csa, algorithm, builder, start_rule, stabbervars, sidevars>>

\* a variant of begin() that does not resume the coroutine
ForBeginNotResuming ==
  /\ pc = "begin"
  /\ pc' = AfterResume(lcp_intervals)
  /\ UNCHANGED <<csa, algorithm, lcp_intervals, builder, start_rule, stabbervars,
                 sidevars>>

\* begin() of the range-for, which resumes the coroutine
ForBegin ==
  /\ pc = "begin"
  /\ lcp_intervals' = GenResume(csa, lcp_intervals)
  /\ pc' = AfterResume(lcp_intervals')
  /\ UNCHANGED <<csa, algorithm, builder, start_rule, stabbervars, sidevars>>

\* operator++ of the iterator
ForIncr ==
  /\ pc = "incr"
  /\ lcp_intervals' = GenResume(csa, lcp_intervals)
  /\ pc' = AfterResume(lcp_intervals')
  /\ UNCHANGED <<csa, algorithm, builder, start_rule, stabbervars, sidevars>>

\* one pass of the loop body
LoopBody ==
  /\ pc = "body"
  /\ builder' = LoopBodyResult(csa, algorithm, builder, lcp_intervals)
  /\ pc' = "incr"
  /\ UNCHANGED <<csa, algorithm, lcp_intervals, start_rule, stabbervars, sidevars>>

\* compute the start rule and return
StartRule ==
  /\ pc = "start"
  /\ LET r == StartRuleResult(csa, algorithm, builder)
     IN /\ start_rule' = Some(r.start_rule)
        /\ builder' = [builder EXCEPT !.cfg = r.cfg,
                                       !.productions = Append(@, r.call)]
  /\ pc' = "done"
  /\ UNCHANGED <<csa, algorithm, lcp_intervals, stabbervars, sidevars>>

Next == SkipFirst \/ ForBegin \/ LoopBody \/ ForIncr \/ StartRule

Spec == Init /\ [][Next]_vars

(***************************************************************************)
(* The online and the fast stabber on their own, given the same update     *)
(* calls side by side: any interval begin..end over the positions          *)
(* 0..MaxPos, with a fresh id or the placeholder value as id.              *)
(***************************************************************************)
\* largest position of an interval given to update
MaxPos == 3
\* most update calls in a run
MaxUpdates == 3

Positions == 0..MaxPos
\* the positions stabbed: every end+1 is one of them
StabPositions == 0..(MaxPos + 1)

InitStabbers ==
  /\ csa = BuildCsa(<<>>)
  /\ algorithm = "ONLINE"
  /\ pc = "stabbers"
  /\ lcp_intervals = GenInit
  /\ builder = BuilderInit(csa, algorithm)
  /\ start_rule = None
  /\ StabbersInit
  /\ SideInit

UpdateCall(begin, end, id) ==
  /\ pc = "stabbers"
  /\ Len(calls) < MaxUpdates
  /\ online' = OnlineUpdate(online, begin, end, id)
  /\ fast' = FastUpdate(fast, begin, end, id)
  /\ calls' = Append(calls, [begin |-> begin, end |-> end, id |-> id])
  /\ UNCHANGED <<buildervars, maximal, sidevars>>

NextStabbers ==
  \E begin \in Positions, end \in Positions, id \in {Len(calls) + 1, PLACEHOLDER} :
    begin <= end /\ UpdateCall(begin, end, id)

SpecStabbers == InitStabbers /\ [][NextStabbers]_vars

(***************************************************************************)
(* The optimal stabber on its own: built over the maximal repeats of a     *)
(* text, then updated with any of them, each at most once, in an order of  *)
(* ascending LCP value.  The k-th maximal repeat gets the id sigma+k-1.    *)
(***************************************************************************)
InitOptimal ==
  /\ csa \in {BuildCsa(T) : T \in Texts}
  /\ algorithm = "OPTIMAL"
  /\ pc = "optimal"
  /\ lcp_intervals = GenInit
  /\ builder = BuilderInit(csa, algorithm)
  /\ start_rule = None
  /\ online = OnlineInit
  /\ fast = FastInit
  /\ calls = <<>>
  /\ maximal = MaximalIntervals(csa)
  /\ SideInit

OptimalUpdateCall(k) ==
  LET repeat == maximal[k]
      id == csa.sigma + k - 1
  IN /\ pc = "optimal"
     /\ \A j \in 1..Len(updated) : updated[j].id # id /\ updated[j].l <= repeat.l
     /\ builder' = [builder EXCEPT
                      !.intervals = OptimalUpdate(@, repeat.lb, repeat.rb, id),
                      !.updated = Append(@, [l |-> repeat.l, begin |-> repeat.lb,
                                             end |-> repeat.rb, id |-> id])]
     /\ UNCHANGED <<csa, algorithm, pc, lcp_intervals, start_rule, stabbervars, sidevars>>

NextOptimal == \E k \in 1..Len(maximal) : OptimalUpdateCall(k)

SpecOptimal == InitOptimal /\ [][NextOptimal]_vars

(***************************************************************************)
(* The id assigner on its own: any getId, removeId and getNextId calls     *)
(* over the suffix array of a text of IdTextLen bytes.  A call of the      *)
(* history holds the key sa[begin]+value it computed, the id it returned   *)
(* and whether it changed the assigner.                                    *)
(***************************************************************************)
\* length of the texts whose suffix array the assigner reads
IdTextLen == 1
\* most calls given to the assigner in a run
MaxIdCalls == 3

InitIds ==
  /\ csa \in {BuildCsa(T) : T \in [0..(IdTextLen - 1) -> Alphabet]}
  /\ algorithm = "ONLINE"
  /\ pc = "ids"
  /\ lcp_intervals = GenInit
  /\ builder = BuilderInit(csa, algorithm)
  /\ start_rule = None
  /\ StabbersInit
  /\ SideInit

GetIdCall(value, begin, end) ==
  LET got == getId(csa, repeat_ids, value, begin, end)
  IN /\ pc = "ids"
     /\ Len(idcalls) < MaxIdCalls
     /\ builder' = [builder EXCEPT !.repeat_ids = got]
     /\ idcalls' = Append(idcalls,
                          [op |-> "getId", key |-> csa.sa[begin] + value,
                           id |-> Some(IdOf(csa, got, value, begin, end)),
                           changed |-> got # repeat_ids])
     /\ UNCHANGED <<csa, algorithm, pc, lcp_intervals, start_rule,
                    stabbervars, yields, visits, process>>

RemoveIdCall(value, begin, end) ==
  LET removed == removeId(csa, repeat_ids, value, begin, end)
  IN /\ pc = "ids"
     /\ Len(idcalls) < MaxIdCalls
     /\ builder' = [builder EXCEPT !.repeat_ids = removed]
     /\ idcalls' = Append(idcalls,
                          [op |-> "removeId", key |-> csa.sa[begin] + value,
                           id |-> None, changed |-> removed # repeat_ids])
     /\ UNCHANGED <<csa, algorithm, pc, lcp_intervals, start_rule,
                    stabbervars, yields, visits, process>>

\* getNextId is const: the assigner is left as it is
GetNextIdCall ==
  /\ pc = "ids"
  /\ Len(idcalls) < MaxIdCalls
  /\ idcalls' = Append(idcalls,
                       [op |-> "getNextId", key |-> 0,
                        id |-> Some(getNextId(repeat_ids)), changed |-> FALSE])
  /\ UNCHANGED <<csa, algorithm, pc, lcp_intervals, builder, start_rule,
                 stabbervars, yields, visits, process>>

NextIds ==
  \/ \E value \in 0..(csa.size - 1), begin \in 0..(csa.size - 1) :
       \E end \in begin..(csa.size - 1) :
         GetIdCall(value, begin, end) \/ RemoveIdCall(value, begin, end)
  \/ GetNextIdCall

SpecIds == InitIds /\ [][NextIds]_vars

(***************************************************************************)
(* The generator on its own: a consumer calls next() until it returns no   *)
(* value, and reads the slots interval and loc_max after each call.        *)
(***************************************************************************)
InitGen ==
  /\ csa \in {BuildCsa(T) : T \in Texts}
  /\ algorithm = "ONLINE"
  /\ pc = "gen"
  /\ lcp_intervals = GenInit
  /\ builder = BuilderInit(csa, algorithm)
  /\ start_rule = None
  /\ StabbersInit
  /\ SideInit

\* Generator::next(), and the yield read by the caller
GenNext ==
  /\ pc = "gen"
  /\ lcp_intervals.pc # "final"
  /\ lcp_intervals' = GenResume(csa, lcp_intervals)
  /\ yields' = IF GenFinished(lcp_intervals') THEN yields
               ELSE Append(yields,
                           [l |-> lcp_intervals'.interval[0],
                            lb |-> lcp_intervals'.interval[1],
                            rb |-> lcp_intervals'.interval[2],
                            left_extensions |-> lcp_intervals'.value[1],
                            loc_max |-> lcp_intervals'.loc_max])
  /\ UNCHANGED <<csa, algorithm, pc, builder, start_rule, stabbervars,
                 visits, idcalls, process>>

NextGen == GenNext

SpecGen == InitGen /\ [][NextGen]_vars

(***************************************************************************)
(* The generator on its own, step by step: a resumption enters the body,   *)
(* and the running body takes one step of its loops at a time until it     *)
(* suspends at co_yield or returns.  visits records the intervals          *)
(* dequeued since the last resumption, with the branch each took at        *)
(* lcp.hpp 122, 150 and 158.                                               *)
(***************************************************************************)
\* largest length of a text of the step-by-step runs
MaxStepLen == 7

StepTexts == UNION {[0..(len - 1) -> Alphabet] : len \in 0..MaxStepLen}

InitGenSteps ==
  /\ csa \in {BuildCsa(T) : T \in StepTexts}
  /\ algorithm = "ONLINE"
  /\ pc = "steps"
  /\ lcp_intervals = GenInit
  /\ builder = BuilderInit(csa, algorithm)
  /\ start_rule = None
  /\ StabbersInit
  /\ SideInit

\* the branch a dequeued interval lb..rb takes in frame f
Branch(f, lb, rb) ==
  IF ~f.finished[rb] THEN (IF f.last_idx # lb THEN "open" ELSE "extend")
  ELSE IF f.last_idx = lb THEN "close"
  ELSE "drop"

\* handle.resume() at the initial suspension or at a co_yield
GenStepResume ==
  /\ pc = "steps"
  /\ lcp_intervals.pc \in {"initial", "suspended"}
  /\ lcp_intervals' = IF lcp_intervals.pc = "initial"
                      THEN GenPrologue(csa, lcp_intervals)
                      ELSE GenAfterYield(lcp_intervals)
  /\ visits' = <<>>
  /\ UNCHANGED <<csa, algorithm, pc, builder, start_rule, stabbervars, yields,
                 idcalls, process>>

\* one step of the running body
GenStepRun ==
  /\ pc = "steps"
  /\ lcp_intervals.pc = "running"
  /\ lcp_intervals' = GenStep(csa, lcp_intervals)
  /\ LET f == lcp_intervals
     IN visits' = IF f.i < csa.sigma /\ f.queue_sizes[f.i] > 0
                  THEN Append(visits,
                              [lb |-> f.queues[f.i][1], rb |-> f.queues[f.i][2],
                               branch |-> Branch(f, f.queues[f.i][1],
                                                 f.queues[f.i][2])])
                  ELSE visits
  /\ yields' = IF lcp_intervals'.pc = "suspended"
               THEN Append(yields,
                           [l |-> lcp_intervals'.interval[0],
                            lb |-> lcp_intervals'.interval[1],
                            rb |-> lcp_intervals'.interval[2],
                            left_extensions |-> lcp_intervals'.value[1],
                            loc_max |-> lcp_intervals'.loc_max])
               ELSE yields
  /\ UNCHANGED <<csa, algorithm, pc, builder, start_rule, stabbervars,
                 idcalls, process>>

NextGenSteps == GenStepResume \/ GenStepRun

\* the body runs on once resumed, and the consumer resumes the coroutine
\* until it has returned
SpecGenSteps ==
  /\ InitGenSteps /\ [][NextGenSteps]_vars
  /\ WF_vars(GenStepRun) /\ WF_vars(GenStepResume)

(***************************************************************************)
(* csaToCfg on the texts "a", "abab", "abcabcabc" and "aaaaaa", the bytes  *)
(* a, b, c being 1, 2, 3.                                                  *)
(***************************************************************************)
\* the text of a sequence of bytes, indexed from 0 as an int_vector is
TextOf(bytes) == [p \in 0..(Len(bytes) - 1) |-> bytes[p + 1]]

ScenarioTexts ==
  {<<1>>, <<1, 2, 1, 2>>, <<1, 2, 3, 1, 2, 3, 1, 2, 3>>, <<1, 1, 1, 1, 1, 1>>}

InitScenarios ==
  /\ csa \in {BuildCsa(TextOf(bytes)) : bytes \in ScenarioTexts}
  /\ algorithm \in Algorithms
  /\ pc = "skip"
  /\ lcp_intervals = GenInit
  /\ builder = BuilderInit(csa, algorithm)
  /\ start_rule = None
  /\ StabbersInit
  /\ SideInit

SpecScenarios == InitScenarios /\ [][Next]_vars

(***************************************************************************)
(* printCfg: the bytes written for a symbol.  A missing key of cfg reads   *)
(* as an empty production (operator[]).  depth bounds the recursion: a     *)
(* grammar of k rules without a cycle nests at most k deep, and a deeper   *)
(* descent writes the byte -1, which no text holds.                        *)
(***************************************************************************)
RECURSIVE Flatten(_)
Flatten(ss) == IF ss = <<>> THEN <<>> ELSE Head(ss) \o Flatten(Tail(ss))

RECURSIVE printCfgDepth(_, _, _, _)
printCfgDepth(c, g, rule, depth) ==
  IF rule < c.sigma
  THEN IF rule > 0 THEN <<c.comp2char[rule]>> ELSE <<>>
  ELSE IF depth = 0 THEN <<-1>>
  ELSE IF rule \notin DOMAIN g THEN <<>>
  ELSE Flatten([k \in 1..Len(g[rule]) |-> printCfgDepth(c, g, g[rule][k], depth - 1)])

printCfg(c, g, rule) == printCfgDepth(c, g, rule, Cardinality(DOMAIN g) + 1)

\* the terminals a symbol expands to, the sentinel included
RECURSIVE ExpandDepth(_, _, _, _)
ExpandDepth(c, g, rule, depth) ==
  IF rule < c.sigma THEN <<rule>>
  ELSE IF depth = 0 \/ rule \notin DOMAIN g THEN <<-1>>
  ELSE Flatten([k \in 1..Len(g[rule]) |-> ExpandDepth(c, g, g[rule][k], depth - 1)])

Expand(c, g, rule) == ExpandDepth(c, g, rule, Cardinality(DOMAIN g) + 1)

\* the input text, without the sentinel
InputText(c) == [k \in 1..(c.size - 1) |-> c.text[k - 1]]

Symbols(production) == {production[k] : k \in 1..Len(production)}
Done == pc = "done"
NonStartRules == (DOMAIN cfg) \ Symbols(start_rule)

(***************************************************************************)
(* main: process holds argc, the selector argv[1], the file argv[2] names  *)
(* (readable or not, with its contents), the text loaded, whether usage()  *)
(* has written, what printCfg has written, and the status returned.  pc is *)
(* "main" at entry, "load" before load_text, "construct" before            *)
(* construct_im, "call" before csaToCfg, the builder's positions inside    *)
(* csaToCfg, and "exit" after a return of main.  csa and builder are None  *)
(* until they are constructed.                                             *)
(***************************************************************************)
\* most command-line words, the program's name included
MaxArgc == 3
\* most bytes of the input file
MaxFileLen == 3

Selectors == Algorithms \cup {"optimal"}
Files == UNION {[0..(len - 1) -> Alphabet] : len \in 0..MaxFileLen}

InMain == DOMAIN process # {}
Constructed == DOMAIN csa # {}

InitMain ==
  /\ process \in
       {[argc |-> argc, selector |-> selector, readable |-> readable,
         contents |-> contents, text |-> None, usage |-> FALSE,
         output |-> None, exit_status |-> None] :
          argc \in 1..MaxArgc, selector \in Selectors, readable \in BOOLEAN,
          contents \in Files}
  /\ ~process.readable => process.contents = <<>>
  /\ csa = None
  /\ algorithm = ""
  /\ pc = "main"
  /\ lcp_intervals = GenInit
  /\ builder = None
  /\ start_rule = None
  /\ StabbersInit
  /\ yields = <<>>
  /\ visits = <<>>
  /\ idcalls = <<>>

\* the checks of the command-line arguments
MainArguments ==
  /\ pc = "main"
  /\ IF process.argc < 3
     THEN /\ process' = [process EXCEPT !.usage = TRUE, !.exit_status = Some(1)]
          /\ pc' = "exit"
          /\ UNCHANGED algorithm
     ELSE /\ algorithm' = process.selector
          /\ IF algorithm' \notin Algorithms
             THEN /\ process' = [process EXCEPT !.usage = TRUE,
                                                !.exit_status = Some(1)]
                  /\ pc' = "exit"
             ELSE /\ pc' = "load"
                  /\ UNCHANGED process
  /\ UNCHANGED <<csa, lcp_intervals, builder, start_rule, stabbervars, yields,
                 visits, idcalls>>

\* load_text: the bytes of the file, or a vector left empty for a file that
\* cannot be read; the result of load_vector_from_file is dropped
MainLoad ==
  /\ pc = "load"
  /\ process' = [process EXCEPT
                   !.text = IF process.readable THEN process.contents ELSE <<>>]
  /\ pc' = "construct"
  /\ UNCHANGED <<csa, algorithm, lcp_intervals, builder, start_rule,
                 stabbervars, yields, visits, idcalls>>

\* construct_im(csa, text)
MainConstruct ==
  /\ pc = "construct"
  /\ csa' = BuildCsa(process.text)
  /\ pc' = "call"
  /\ UNCHANGED <<algorithm, lcp_intervals, builder, start_rule, stabbervars,
                 sidevars>>

\* the call of csaToCfg, up to its first statement on the generator
MainCall ==
  /\ pc = "call"
  /\ builder' = BuilderInit(csa, algorithm)
  /\ pc' = "skip"
  /\ UNCHANGED <<csa, algorithm, lcp_intervals, start_rule, stabbervars,
                 sidevars>>

\* after csaToCfg: printCfg and the return of main
MainReturn ==
  /\ pc = "done"
  /\ InMain
  /\ process' = [process EXCEPT
                   !.output = Some(printCfg(csa, cfg, start_rule[1])),
                   !.exit_status = Some(1)]
  /\ pc' = "exit"
  /\ UNCHANGED <<csa, algorithm, lcp_intervals, builder, start_rule,
                 stabbervars, yields, visits, idcalls>>

NextMain ==
  MainArguments \/ MainLoad \/ MainConstruct \/ MainCall \/ Next \/ MainReturn

SpecMain == InitMain /\ [][NextMain]_vars

(***************************************************************************)
(* The properties of the grammar builder.                                  *)
(***************************************************************************)
\* C1: for every input text and every stabber variant, expanding the start
\* rule of the returned grammar, terminals mapped through comp2char and the
\* sentinel skipped, yields exactly the input text
C1_RoundTrip == Done => printCfg(csa, cfg, start_rule[1]) = InputText(csa)

(***************************************************************************)
(* The stabbing contract: the id of the smallest interval of a list of     *)
(* update calls that contains position p.                                  *)
(***************************************************************************)
Disjoint(a, b) == a.end < b.begin \/ b.end < a.begin
Within(a, b) == b.begin <= a.begin /\ a.end <= b.end
StrictlyWithin(a, b) == Within(a, b) /\ (a.begin # b.begin \/ a.end # b.end)

Containing(cs, p) == {k \in 1..Len(cs) : cs[k].begin <= p /\ p <= cs[k].end}
Smallest(cs, p) ==
  {k \in Containing(cs, p) :
     \A j \in Containing(cs, p) : cs[k].end - cs[k].begin <= cs[j].end - cs[j].begin}

\* a stab result is right when it is none where no interval contains p and
\* the id of a smallest interval containing p elsewhere
StabsRight(cs, p, result) ==
  IF Containing(cs, p) = {} THEN result = None
  ELSE \E k \in Smallest(cs, p) : result = Some(cs[k].id)

\* the precondition of update: the new interval is disjoint from every
\* earlier one, or strictly nested within one and nested-or-disjoint with
\* the others
Precondition(prev, c) ==
  \/ \A j \in 1..Len(prev) : Disjoint(c, prev[j])
  \/ /\ \E j \in 1..Len(prev) : StrictlyWithin(c, prev[j])
     /\ \A j \in 1..Len(prev) :
          Disjoint(c, prev[j]) \/ Within(c, prev[j]) \/ Within(prev[j], c)
Lawful(cs) == \A k \in 1..Len(cs) : Precondition(SubSeq(cs, 1, k - 1), cs[k])
\* no call's interval contains (or equals) the interval of an earlier call
OuterFirst(cs) == \A k \in 1..Len(cs) : \A j \in 1..(k - 1) : ~Within(cs[j], cs[k])
NoPlaceholder(cs) == \A k \in 1..Len(cs) : cs[k].id # PLACEHOLDER

\* C2 as stated: after update calls that each are disjoint from all earlier
\* intervals or strictly nested within one, the online stab of every
\* position is the id of the smallest updated interval containing it, or none
C2_OnlineContractAsStated ==
  Lawful(calls) => \A p \in StabPositions : StabsRight(calls, p, OnlineStab(online, p))

\* C2 amended: the same, for calls none of which contains an earlier
\* interval (outer intervals first) nor has the placeholder value as id
C2_OnlineContract ==
  (Lawful(calls) /\ OuterFirst(calls) /\ NoPlaceholder(calls))
    => \A p \in StabPositions : StabsRight(calls, p, OnlineStab(online, p))

\* three lawful outer-first calls, the last strictly nested within an earlier
\* one and answering the stab of its begin
C2_Witness ==
  /\ Len(calls) = 3 /\ Lawful(calls) /\ OuterFirst(calls) /\ NoPlaceholder(calls)
  /\ \E j \in 1..2 : StrictlyWithin(calls[3], calls[j])
  /\ OnlineStab(online, calls[3].begin) = Some(calls[3].id)

\* C3: with the optimal stabber built over the maximal repeats of a text
\* and any of them updated in ascending LCP order, the stab of every suffix
\* array position is the id of the smallest updated interval containing it,
\* or none
C3_OptimalContract ==
  pc = "optimal" =>
    \A p \in 0..(csa.size - 1) : StabsRight(updated, p, OptimalStab(intervals, p))

\* C4: given the same update calls with ids other than the placeholder, the
\* fast and the online stabber answer every stab alike after every call, and
\* the set bits of the fast one are the keys of the online one
C4_FastEqualsOnline ==
  NoPlaceholder(calls) =>
    /\ \A p \in StabPositions : FastStab(fast, p) = OnlineStab(online, p)
    /\ fast.position_bits = DOMAIN online.lookup

\* three calls after which some stab finds an id and the online stabber
\* holds a placeholder where the fast one holds a bit without an id
C4_Witness ==
  /\ Len(calls) = 3 /\ NoPlaceholder(calls)
  /\ \E p \in StabPositions : FastStab(fast, p) # None
  /\ \E k \in DOMAIN online.lookup :
       online.lookup[k] = PLACEHOLDER /\ k \notin DOMAIN fast.lookup

\* C5: for the same text the three variants return grammars with the same
\* number of rules and the same production lengths, each expanding to the
\* input
SameShape(g, h) ==
  /\ Cardinality(DOMAIN g) = Cardinality(DOMAIN h)
  /\ \A len \in 0..(MaxLen + 1) :
       Cardinality({r \in DOMAIN g : Len(g[r]) = len})
         = Cardinality({r \in DOMAIN h : Len(h[r]) = len})

C5_CrossVariant ==
  Done =>
    /\ printCfg(csa, cfg, start_rule[1]) = InputText(csa)
    /\ \A a \in Algorithms \ {algorithm} :
         LET other == csaToCfg(csa, a)
         IN /\ SameShape(cfg, other.cfg)
            /\ printCfg(csa, other.cfg, other.start_rule) = InputText(csa)

\* C6: at the return, every rule but the start rule has a stored size, of
\* at least 2, which is the number of terminals the rule expands to
C6_SizeConsistency ==
  Done =>
    \A r \in NonStartRules :
      /\ r \in DOMAIN rule_production_sizes
      /\ rule_production_sizes[r] >= 2
      /\ rule_production_sizes[r] = Len(Expand(csa, cfg, r))
      /\ -1 \notin Symbols(Expand(csa, cfg, r))

\* C7 as stated: no production of the returned grammar holds the
\* sentinel's terminal id 0
C7_NoSentinelAsStated ==
  Done => \A r \in DOMAIN cfg : 0 \notin Symbols(cfg[r])

\* C7 amended: no production of a rule other than the start rule holds the
\* sentinel's id; the start rule's production holds it at most once, as its
\* last symbol, and does hold it with the online and the fast stabber
C7_SentinelOnlyEndsStart ==
  /\ \A r \in NonStartRules : 0 \notin Symbols(cfg[r])
  /\ Done =>
       LET production == cfg[start_rule[1]]
       IN /\ \A k \in 1..(Len(production) - 1) : production[k] # 0
          /\ algorithm \in {"ONLINE", "FAST"} => production[Len(production)] = 0

\* a returned grammar with a rule besides the start rule, whose start
\* production ends with the sentinel
C7_Witness ==
  /\ Done /\ NonStartRules # {}
  /\ cfg[start_rule[1]][Len(cfg[start_rule[1]])] = 0

\* C8 as stated: no rule, the start rule included, ever has a production of
\* length 1 or 0
C8_NoUnitRulesAsStated == \A r \in DOMAIN cfg : Len(cfg[r]) > 1

\* C8 amended: no rule other than the start rule ever has a production of
\* length 1 or 0; the start production has at least 2 symbols for every text
\* but the empty one, for which it is the sentinel alone
C8_NoUnitRules ==
  /\ \A r \in NonStartRules : Len(cfg[r]) > 1
  /\ Done => IF csa.size = 1 THEN cfg[start_rule[1]] = <<0>>
             ELSE Len(cfg[start_rule[1]]) > 1

\* a returned grammar with a rule besides the start rule, built after a
\* rule of one symbol was discarded
C8_Witness == Done /\ NonStartRules # {} /\ discarded # {}

\* C9: every non-terminal in a rule's production was installed before the
\* rule and has a strictly smaller stored size; those of the start
\* production were installed; so expanding any rule terminates
InstalledAt(id) == {k \in 1..Len(updated) : updated[k].id = id}

C10_Closure ==
  /\ \A r \in DOMAIN cfg : \A s \in Symbols(cfg[r]) :
       (s < csa.sigma \/ s \in DOMAIN cfg) /\ s \notin discarded
  /\ \A d \in discarded :
       /\ d \notin DOMAIN cfg
       /\ d \notin DOMAIN rule_production_sizes
       /\ InstalledAt(d) = {}

\* a returned grammar whose start production holds a rule, built after a
\* rule was discarded while the stabber already held an interval
C10_Witness ==
  /\ Done /\ discarded # {}
  /\ \E s \in Symbols(cfg[start_rule[1]]) : s >= csa.sigma
  /\ \E d \in discarded : \E k \in 1..Len(updated) : updated[k].id < d

(***************************************************************************)
(* The properties of the id assigner.                                      *)
(***************************************************************************)
\* the calls of the history strictly between the j-th and the k-th that
\* remove key
RemovalsBetween(j, k, key) ==
  {m \in (j + 1)..(k - 1) : idcalls[m].op = "removeId" /\ idcalls[m].key = key}

\* the key is allocated before the k-th call: a getId of it came earlier and
\* no removeId of it since
AllocatedBefore(k, key) ==
  \E j \in 1..(k - 1) :
    /\ idcalls[j].op = "getId" /\ idcalls[j].key = key
    /\ RemovalsBetween(j, k, key) = {}

\* C11: two getId calls of the same key return the same id if and only if
\* no removeId of that key came between them, and a removeId of a key that
\* is not allocated leaves the assigner as it was
C11_IdAssigner ==
  pc = "ids" =>
    /\ \A j \in 1..Len(idcalls) : \A k \in (j + 1)..Len(idcalls) :
         (/\ idcalls[j].op = "getId" /\ idcalls[k].op = "getId"
          /\ idcalls[j].key = idcalls[k].key)
           => ((idcalls[j].id = idcalls[k].id)
                 <=> (RemovalsBetween(j, k, idcalls[j].key) = {}))
    /\ \A k \in 1..Len(idcalls) :
         (idcalls[k].op = "removeId" /\ ~AllocatedBefore(k, idcalls[k].key))
           => ~idcalls[k].changed

\* a key allocated, removed and allocated again, under another id
C11_Witness ==
  /\ pc = "ids" /\ Len(idcalls) = 3
  /\ idcalls[1].op = "getId" /\ idcalls[2].op = "removeId"
  /\ idcalls[3].op = "getId"
  /\ idcalls[1].key = idcalls[2].key /\ idcalls[2].key = idcalls[3].key
  /\ idcalls[2].changed
  /\ idcalls[1].id # idcalls[3].id

(***************************************************************************)
(* The properties of the generator.  The LCP-intervals of a text are read  *)
(* off its suffixes: LcpAt(c, j) is the length of the longest common       *)
(* prefix of the suffixes at suffix array positions j-1 and j, and -1 at   *)
(* both ends.                                                              *)
(***************************************************************************)
RECURSIVE CommonPrefix(_, _, _)
CommonPrefix(c, a, b) ==
  IF c.text[a] # c.text[b] THEN 0 ELSE 1 + CommonPrefix(c, a + 1, b + 1)

LcpAt(c, j) ==
  IF j = 0 \/ j = c.size THEN -1 ELSE CommonPrefix(c, c.sa[j - 1], c.sa[j])

\* lb..rb is an LCP-interval of value l: at least two suffixes, which share
\* a longest common prefix of length l, and no wider range does
IsLcpInterval(c, l, lb, rb) ==
  /\ lb < rb
  /\ LcpAt(c, lb) < l
  /\ LcpAt(c, rb + 1) < l
  /\ \A k \in (lb + 1)..rb : LcpAt(c, k) >= l
  /\ \E k \in (lb + 1)..rb : LcpAt(c, k) = l

TrueLcpIntervals(c) ==
  {t \in (0..(c.size - 1)) \X (0..(c.size - 1)) \X (0..(c.size - 1)) :
     IsLcpInterval(c, t[1], t[2], t[3])}

Yielded == {<<yields[k].l, yields[k].lb, yields[k].rb>> : k \in 1..Len(yields)}
YieldedOnce ==
  \A j \in 1..Len(yields) : \A k \in (j + 1)..Len(yields) :
    <<yields[j].l, yields[j].lb, yields[j].rb>>
      # <<yields[k].l, yields[k].lb, yields[k].rb>>
Exhausted == pc = "gen" /\ lcp_intervals.pc = "final"

\* C12 as stated: for every text the yields are the LCP-intervals of the
\* text, each once, and nothing else
C12_EnumeratorAsStated ==
  /\ pc = "gen" => \A t \in Yielded : IsLcpInterval(csa, t[1], t[2], t[3])
  /\ Exhausted => Yielded = TrueLcpIntervals(csa) /\ YieldedOnce

\* C12 amended: so it is for every text but the empty one, for which the
\* one yield is the range 0..0 of the sentinel's suffix, with value 0
C12_Enumerator ==
  IF csa.size > 1
  THEN /\ pc = "gen" => \A t \in Yielded : IsLcpInterval(csa, t[1], t[2], t[3])
       /\ Exhausted => Yielded = TrueLcpIntervals(csa) /\ YieldedOnce
  ELSE /\ pc = "gen" => Yielded \subseteq {<<0, 0, 0>>}
       /\ Exhausted => Len(yields) = 1

\* an exhausted generator that has yielded an interval of three suffixes or
\* more with an LCP value of at least 2
C12_Witness ==
  /\ Exhausted
  /\ \E j \in 1..Len(yields) : yields[j].l >= 2 /\ yields[j].rb > yields[j].lb + 1

\* C13: from a yield to the next the LCP value never decreases, and the
\* left boundary increases where the value stays
C13_EnumeratorOrder ==
  pc = "gen" =>
    \A k \in 1..(Len(yields) - 1) :
      \/ yields[k].l < yields[k + 1].l
      \/ yields[k].l = yields[k + 1].l /\ yields[k].lb < yields[k + 1].lb

\* two yields of one LCP value followed by one of a larger value
C13_Witness ==
  /\ pc = "gen"
  /\ \E k \in 1..(Len(yields) - 2) :
       /\ yields[k].l = yields[k + 1].l /\ yields[k].l > 0
       /\ yields[k + 1].l < yields[k + 2].l

\* the distinct symbols before the suffixes of lb..rb, the sentinel being
\* the one before the whole text
PrecedingSymbols(c, lb, rb) ==
  {c.text[(c.sa[j] + c.size - 1) % c.size] : j \in lb..rb}

\* C14: the value yielded with an interval is the number of distinct symbols
\* preceding its suffixes, the sentinel counted as one
C14_LeftExtensions ==
  pc = "gen" =>
    \A k \in 1..Len(yields) :
      yields[k].left_extensions
        = Cardinality(PrecedingSymbols(csa, yields[k].lb, yields[k].rb))

\* a yield of one left extension after a yield of several
C14_Witness ==
  /\ pc = "gen"
  /\ \E k \in 1..(Len(yields) - 1) :
       yields[k].left_extensions > 2 /\ yields[k + 1].left_extensions = 1

(***************************************************************************)
(* The properties of main.                                                 *)
(***************************************************************************)
\* a run with a supported selector and a readable file that has built the
\* grammar and written the text back
Completed ==
  /\ InMain /\ pc = "exit"
  /\ process.argc >= 3 /\ process.selector \in Algorithms /\ process.readable
  /\ process.output # None

\* C15: a run with a supported selector and a readable file that completes
\* the construction and the printing of the grammar returns the status 0
C15_ExitStatus == Completed => process.exit_status = Some(0)

\* too few arguments, an unsupported selector or a file that cannot be read
InputError ==
  \/ process.argc < 3
  \/ process.selector \notin Algorithms
  \/ ~process.readable

\* C16: with too few arguments, an unsupported selector or an unreadable
\* file the program constructs neither the CSA nor the grammar, and returns
\* a non-zero status after reporting the error
C16_InputErrors ==
  (InMain /\ InputError) =>
    /\ ~Constructed
    /\ builder = None
    /\ pc = "exit" =>
         /\ process.usage
         /\ process.exit_status # None /\ process.exit_status # Some(0)

(***************************************************************************)
(* The properties of the scenarios.                                        *)
(***************************************************************************)
\* the run on the given bytes has returned
DoneOn(bytes) == Done /\ InputText(csa) = bytes

\* how often a symbol occurs in a production
Occurrences(production, s) ==
  Cardinality({k \in 1..Len(production) : production[k] = s})

\* C17: for the text "aaaaaa" and each stabber, the start production holds a
\* non-terminal whose rule expands to 2 bytes or more, and the start rule
\* expands to "aaaaaa"
C17_Run ==
  DoneOn(<<1, 1, 1, 1, 1, 1>>) =>
    /\ \E s \in Symbols(cfg[start_rule[1]]) :
         s >= csa.sigma /\ Len(printCfg(csa, cfg, s)) >= 2
    /\ printCfg(csa, cfg, start_rule[1]) = <<1, 1, 1, 1, 1, 1>>

\* the grammar has one rule besides the start rule, which expands to the
\* given bytes, has their number as stored size and occurs the given number
\* of times in the start production
OneRule(bytes, times) ==
  \E r \in NonStartRules :
    /\ NonStartRules = {r}
    /\ printCfg(csa, cfg, r) = bytes
    /\ r \in DOMAIN rule_production_sizes
    /\ rule_production_sizes[r] = Len(bytes)
    /\ Occurrences(cfg[start_rule[1]], r) = times

\* C18: for "abab" the grammar has one rule besides the start rule, for
\* "ab" with stored size 2, 2 times in the start production; for
\* "abcabcabc" it has one, for "abc" with stored size 3, 3 times in the
\* start production, the rule of "abcabc" being discarded
C18_Periodic ==
  /\ DoneOn(<<1, 2, 1, 2>>) => OneRule(<<1, 2>>, 2)
  /\ DoneOn(<<1, 2, 3, 1, 2, 3, 1, 2, 3>>) =>
       OneRule(<<1, 2, 3>>, 3) /\ Cardinality(discarded) > 0

\* the run on "abcabcabc" with the optimal stabber has returned
C18_Witness ==
  DoneOn(<<1, 2, 3, 1, 2, 3, 1, 2, 3>>) /\ algorithm = "OPTIMAL"

(***************************************************************************)
(* The properties of the rule spans.                                       *)
(***************************************************************************)
\* the terminals a production expands to
ExpandAll(c, g, production) ==
  Flatten([k \in 1..Len(production) |-> Expand(c, g, production[k])])

\* C19: every call of computeProduction the builder makes leaves its loop
\* with i = n, no rule taken reaching beyond n, and returns a production
\* that expands to n - i terminals
C19_NoOvershoot ==
  \A k \in 1..Len(productions) :
    /\ productions[k].exit = productions[k].n
    /\ Len(ExpandAll(csa, cfg, productions[k].production))
         = productions[k].n - productions[k].i

\* the text at positions i..i+s-1, as terminal ids
TextIds(c, i, s) == [k \in 1..s |-> c.char2comp[c.text[i + k - 1]]]

\* C20: the stored size s of every rule given to update with an interval of
\* LCP value l has 2 <= s <= l, and whenever the stab of a text position i
\* returns a rule, the text from i on is the rule's expansion, of s terminals
C20_OccurrenceSound ==
  pc \in {"skip", "begin", "body", "incr", "start", "done"} =>
    /\ \A k \in 1..Len(updated) :
         /\ 2 <= rule_production_sizes[updated[k].id]
         /\ rule_production_sizes[updated[k].id] <= updated[k].l
    /\ \A i \in 0..(csa.size - 1) :
         LET rule_id == Stab(algorithm, intervals, csa.isa[i])
         IN rule_id # None =>
              LET s == rule_production_sizes[rule_id[1]]
              IN /\ i + s <= csa.size
                 /\ Expand(csa, cfg, rule_id[1]) = TextIds(csa, i, s)
(***************************************************************************)
(* The builder's calls and their order.                                    *)
(***************************************************************************)
\* C21: every interval the builder gives to update is, for every interval
\* it gave to update before, disjoint from it or strictly nested within it
C21_UpdateOrder ==
  \A k \in 1..Len(updated) : \A j \in 1..(k - 1) :
    Disjoint(updated[k], updated[j]) \/ StrictlyWithin(updated[k], updated[j])

\* a finished run with an update strictly nested within an earlier one
C21_Witness ==
  /\ Done
  /\ \E k \in 1..Len(updated) : \E j \in 1..(k - 1) :
       StrictlyWithin(updated[k], updated[j])

\* the case of C22: no earlier interval is contained in the new one (or
\* equal to it) and none partially overlaps it, so each earlier interval is
\* disjoint from the new one or strictly contains it
NothingInsideOrAcross(prev, c) ==
  \A j \in 1..Len(prev) : Disjoint(prev[j], c) \/ StrictlyWithin(c, prev[j])

\* the online stabs outside begin..end are what they were before the call
OnlineFrame(c) ==
  \A p \in StabPositions \ (c.begin..c.end) :
    OnlineStab(online', p) = OnlineStab(online, p)

\* C22 as stated: an update of the online stabber with an interval that
\* contains no earlier interval and overlaps none partially makes the stab
\* of every position of the interval the new id, and leaves the stab of
\* every position outside the interval as it was
C22_OnlineUpdateAsStated ==
  [][LET c == calls'[Len(calls')]
     IN NothingInsideOrAcross(calls, c) =>
          /\ \A p \in c.begin..c.end : OnlineStab(online', p) = Some(c.id)
          /\ OnlineFrame(c)]_vars

\* C22 amended: the same for an id other than the placeholder value; with
\* the placeholder value as id the stab of every position of the interval
\* is none, and the stabs outside are as they were
C22_OnlineUpdate ==
  [][LET c == calls'[Len(calls')]
     IN NothingInsideOrAcross(calls, c) =>
          /\ \A p \in c.begin..c.end :
               OnlineStab(online', p) =
                 IF c.id = PLACEHOLDER THEN None ELSE Some(c.id)
          /\ OnlineFrame(c)]_vars

\* an update strictly nested within an earlier one and ending before the
\* earlier one ends: its positions stab to its id, the position after its
\* end to the id of the enclosing interval
C22_Witness ==
  /\ Len(calls) >= 2 /\ NoPlaceholder(calls)
  /\ LET c == calls[Len(calls)]
         prev == SubSeq(calls, 1, Len(calls) - 1)
     IN /\ NothingInsideOrAcross(prev, c)
        /\ \E j \in 1..Len(prev) :
             /\ StrictlyWithin(c, prev[j]) /\ c.end < prev[j].end
             /\ OnlineStab(online, c.end + 1) = Some(prev[j].id)
        /\ \A p \in c.begin..c.end : OnlineStab(online, p) = Some(c.id)

(***************************************************************************)
(* The binary ids of the optimal stabber, as the preprocessing is to       *)
(* assign them: the maximal repeats taken by begin position, outer before  *)
(* inner, get the bits N-1, N-2, ..., 0; a repeat's binary id holds its    *)
(* own bit and those of the maximal repeats that contain it.               *)
(***************************************************************************)
RepeatAt(k) == [begin |-> maximal[k].lb, end |-> maximal[k].rb]
RepeatsOver(p) ==
  {k \in 1..Len(maximal) : maximal[k].lb <= p /\ p <= maximal[k].rb}
SmallestOver(p) ==
  {k \in RepeatsOver(p) : \A j \in RepeatsOver(p) : Within(RepeatAt(k), RepeatAt(j))}
\* the repeats walked before the k-th: those that begin earlier, and those
\* that begin at the same position and contain it
WalkedBefore(k) ==
  {j \in 1..Len(maximal) :
     \/ maximal[j].lb < maximal[k].lb
     \/ maximal[j].lb = maximal[k].lb /\ maximal[j].rb > maximal[k].rb}
BitOf(k) == Len(maximal) - 1 - Cardinality(WalkedBefore(k))
BinaryId(k) ==
  {BitOf(j) : j \in {x \in 1..Len(maximal) : Within(RepeatAt(k), RepeatAt(x))}}

\* C23: after the preprocessing, _stab of every suffix array position is
\* the binary id of the smallest maximal repeat containing the position,
\* and none where no maximal repeat contains it
C23_OptimalLookup ==
  pc = "optimal" =>
    \A p \in 0..(csa.size - 1) :
      IF RepeatsOver(p) = {} THEN OptimalInnerStab(intervals, p) = None
      ELSE \E k \in SmallestOver(p) :
             OptimalInnerStab(intervals, p) = Some(BinaryId(k))

\* the bits of the repeats that were given to update
UpdatedBits ==
  {BitOf(k) : k \in {x \in 1..Len(maximal) :
                       \E j \in 1..Len(updated) :
                         updated[j].begin = maximal[x].lb /\ updated[j].end = maximal[x].rb}}
\* the bit of the interval that stab takes for the deepest updated ancestor
\* of position p: the minimum of *_update_id & *binary_id
StabBit(s, p) ==
  LET binary_id == OptimalInnerStab(s, p)
  IN IF binary_id = None \/ s.update_id \cap binary_id[1] = {} THEN None
     ELSE Some(Min(s.update_id \cap binary_id[1]))

\* the first half of C24: the minimum bit of _stab(b) & _stab(e) is the bit
\* of the repeat b..e, for every maximal repeat
C24_IntervalBit ==
  pc = "optimal" =>
    \A k \in 1..Len(maximal) :
      LET begin_id == OptimalInnerStab(intervals, maximal[k].lb)
          end_id == OptimalInnerStab(intervals, maximal[k].rb)
      IN /\ begin_id # None /\ end_id # None
         /\ begin_id[1] \cap end_id[1] = BinaryId(k)
         /\ Min(begin_id[1] \cap end_id[1]) = BitOf(k)
         /\ \A j \in 1..Len(maximal) : BitOf(j) = BitOf(k) => j = k

\* C24: the minimum bit of _stab(b) & _stab(e) is the bit of the repeat
\* b..e, and the interval stab takes for updated at any position is one
\* that was given to update
C24_UpdateMarksOne ==
  /\ C24_IntervalBit
  /\ pc = "optimal" =>
       \A p \in 0..(csa.size - 1) :
         StabBit(intervals, p) # None => StabBit(intervals, p)[1] \in UpdatedBits

\* the stabber after the update calls us, and nothing else, were given to
\* a new stabber
RECURSIVE StabberAfter(_, _, _)
StabberAfter(c, a, us) ==
  IF us = <<>> THEN NewStabber(a, c)
  ELSE LET u == us[Len(us)]
       IN Update(a, StabberAfter(c, a, SubSeq(us, 1, Len(us) - 1)),
                 u.begin, u.end, u.id)

\* a step with an update: the rule's production is computed from the
\* stabber after the earlier updates, and the update comes after it
RuleThenUpdate ==
  LET u == updated'[Len(updated')]
      i == csa.sa[u.begin]
  IN /\ Len(updated') = Len(updated) + 1
     /\ cfg'[u.id] =
          computeProduction(csa, algorithm,
                            StabberAfter(csa, algorithm, updated),
                            rule_production_sizes', i,
                            i + rule_production_sizes'[u.id])
     /\ u.id \notin Symbols(cfg'[u.id])
     /\ intervals' = StabberAfter(csa, algorithm, updated')
     /\ ~GenFinished(lcp_intervals)

\* the step of the start rule: the generator is exhausted, there is no
\* update, and the production is computed from the stabber after all
\* updates
StartRuleLast ==
  /\ GenFinished(lcp_intervals)
  /\ updated' = updated
  /\ cfg'[start_rule'[1]] =
       computeProduction(csa, algorithm,
                         StabberAfter(csa, algorithm, updated),
                         rule_production_sizes, 0, csa.size)

\* C25: the production of a rule is computed from the stabber as it is
\* after all earlier updates and before the rule's own update, so it does
\* not hold the rule's own id; the start production is computed when the
\* generator is exhausted, from the stabber after all updates, and no
\* update follows it
C25_EventOrder ==
  [][/\ (Len(updated') > Len(updated)) => RuleThenUpdate
     /\ (start_rule' # start_rule) => StartRuleLast
     /\ (start_rule # None) => (updated' = updated)]_vars

\* a returned grammar with a rule whose production holds a rule installed
\* by an earlier update, and whose start production holds the rule
\* installed by the last update
C25_Witness ==
  /\ Done /\ Len(updated) >= 2
  /\ \E k \in 2..Len(updated) : \E j \in 1..(k - 1) :
       updated[j].id \in Symbols(cfg[updated[k].id])
  /\ updated[Len(updated)].id \in Symbols(cfg[start_rule[1]])

(***************************************************************************)
(* The builder's use of the generator.                                     *)
(***************************************************************************)
\* all the values the coroutine yields, from its first resumption to its
\* return
AllYields(c) == GenCollect(c, GenResume(c, GenInit), <<>>)
\* what a consumer reads from the slots and the promise
Slots(f) ==
  [l |-> f.interval[0], lb |-> f.interval[1], rb |-> f.interval[2],
   left_extensions |-> f.value[1]]

\* C26: the first yield is the interval (0, 0, n-1); the builder discards
\* it and nothing else; the passes of the loop body read the slots of the
\* remaining yields, each once, in order; the loop is left exactly when the
\* coroutine has returned
C26_SkipFirst ==
  pc \in {"begin", "body", "incr", "start", "done"} =>
    LET all == AllYields(csa)
    IN /\ Len(all) >= 1
       /\ all[1].l = 0 /\ all[1].lb = 0 /\ all[1].rb = csa.size - 1
       /\ Len(processed) < Len(all)
       /\ processed = SubSeq(all, 2, Len(processed) + 1)
       /\ pc = "begin" => Slots(lcp_intervals) = all[1]
       /\ pc = "body" =>
            /\ lcp_intervals.pc = "suspended"
            /\ Len(processed) + 2 <= Len(all)
            /\ Slots(lcp_intervals) = all[Len(processed) + 2]
       /\ pc = "incr" => lcp_intervals.pc = "suspended"
       /\ pc \in {"start", "done"} =>
            /\ lcp_intervals.pc = "final"
            /\ Len(processed) = Len(all) - 1

\* a finished run whose loop body ran at least three times
C26_Witness == Done /\ Len(processed) >= 3 /\ lcp_intervals.pc = "final"

(***************************************************************************)
(* The termination of the generator.                                       *)
(***************************************************************************)
RECURSIVE PairsIn(_, _)
PairsIn(queues, ks) ==
  IF ks = {} THEN 0
  ELSE LET k == CHOOSE x \in ks : TRUE
       IN Len(queues[k]) \div 2 + PairsIn(queues, ks \ {k})
\* the number of (lb, rb) pairs in the queues
QueuedPairs(f) == PairsIn(f.queues, DOMAIN f.queues)

\* the counter of pending intervals is the number of queued pairs
IntervalsCounted ==
  pc = "steps" => lcp_intervals.intervals = QueuedPairs(lcp_intervals)
\* a dequeued interval whose right boundary is finished and which does not
\* close the open LCP-interval leaves one pair less in the queues
DroppedWithoutChildren ==
  (Len(visits') > Len(visits) /\ visits'[Len(visits')].branch = "drop")
    => QueuedPairs(lcp_intervals') = QueuedPairs(lcp_intervals) - 1
Returned == lcp_intervals.pc = "final" /\ lcp_intervals.intervals = 0

\* C27: the counter intervals always is the number of pairs in the queues,
\* a dropped interval queues no children, and the generator reaches its
\* return, with the counter at 0, after finitely many resumptions
C27_Termination ==
  /\ []IntervalsCounted
  /\ [][DroppedWithoutChildren]_vars
  /\ <>Returned

\* the generator has returned after five yields or more and has dropped an
\* interval since its last resumption
C27_Witness ==
  /\ pc = "steps" /\ Returned /\ Len(yields) >= 5
  /\ \E k \in 1..Len(visits) : visits[k].branch = "drop"

(***************************************************************************)
(* The start rule.                                                         *)
(***************************************************************************)
\* the ids getId has returned: each got a stored size, which only the
\* discarding of its rule erases
ReturnedIds == ((DOMAIN rule_production_sizes) \cup discarded) \ (0..(csa.sigma - 1))

\* C28: the start rule's id is the id assigner's next id when the generator
\* is exhausted; it is at least sigma, greater than every other key of the
\* grammar and than every id getId has returned, the discarded ones
\* included, and it is in no production
C28_StartRule ==
  Done =>
    LET s == start_rule[1]
    IN /\ GenFinished(lcp_intervals)
       /\ s = repeat_ids.next_id
       /\ s >= csa.sigma
       /\ \A r \in (DOMAIN cfg) \ {s} : r < s
       /\ \A r \in ReturnedIds : r < s
       /\ \A k \in 1..Len(updated) : updated[k].id < s
       /\ \A key \in DOMAIN repeat_ids.repeat_ids : repeat_ids.repeat_ids[key] < s
       /\ \A r \in DOMAIN cfg : s \notin Symbols(cfg[r])

\* a returned grammar built after two rules were installed and another
\* discarded, so the start rule's id is sigma + 3 at least
C28_Witness ==
  /\ Done /\ Len(updated) >= 2 /\ discarded # {}
  /\ start_rule[1] >= csa.sigma + 3
  /\ Cardinality(ReturnedIds) >= 3

(***************************************************************************)
(* The freshness of the ids.                                               *)
(***************************************************************************)
\* the calls of the history that allocated an id
Allocations == {k \in 1..Len(idcalls) : idcalls[k].op = "getId" /\ idcalls[k].changed}

\* C29: the ids are allocated in ascending order from sigma on, so none is
\* allocated twice; distinct live keys have distinct ids; getNextId leaves
\* the assigner as it is and returns the id that the next allocating getId
\* returns
C29_IdFreshness ==
  pc = "ids" =>
    /\ \A k \in Allocations :
         idcalls[k].id = Some(csa.sigma + Cardinality({j \in Allocations : j < k}))
    /\ \A j \in Allocations : \A k \in Allocations :
         j # k => idcalls[j].id # idcalls[k].id
    /\ \A a \in DOMAIN repeat_ids.repeat_ids : \A b \in DOMAIN repeat_ids.repeat_ids :
         a # b => repeat_ids.repeat_ids[a] # repeat_ids.repeat_ids[b]
    /\ \A a \in DOMAIN repeat_ids.repeat_ids :
         csa.sigma <= repeat_ids.repeat_ids[a]
           /\ repeat_ids.repeat_ids[a] < getNextId(repeat_ids)
    /\ \A k \in 1..Len(idcalls) :
         idcalls[k].op = "getNextId" =>
           /\ ~idcalls[k].changed
           /\ \A j \in Allocations :
                (j > k /\ \A m \in Allocations : ~(k < m /\ m < j))
                  => idcalls[j].id = idcalls[k].id
           /\ (\A j \in Allocations : j < k)
                => idcalls[k].id = Some(getNextId(repeat_ids))

\* a getNextId call, the getId call that allocates the id it announced, and
\* a getId call of another key, both keys live
C29_Witness ==
  /\ pc = "ids" /\ Len(idcalls) = 3
  /\ idcalls[1].op = "getNextId" /\ Allocations = {2, 3}
  /\ idcalls[2].id = idcalls[1].id
  /\ Cardinality(DOMAIN repeat_ids.repeat_ids) = 2

(***************************************************************************)
(* The loc_max slot.                                                       *)
(***************************************************************************)
\* the visits that assembled the LCP-interval yielded last: those since
\* the last resumption that were not dropped, from the last one that
\* opened an LCP-interval on
Assembling ==
  LET taken == {k \in 1..Len(visits) : visits[k].branch # "drop"}
      opened == {k \in taken : visits[k].branch = "open"}
  IN IF opened = {} THEN taken ELSE {k \in taken : k >= Max(opened)}

AtYield == pc = "steps" /\ lcp_intervals.pc = "suspended"

\* C30: at every yield loc_max is true if and only if every interval
\* visited while the yielded LCP-interval was assembled is a singleton
\* (lb = rb - 1); a resumption sets it to true again
C30_LocMax ==
  /\ AtYield =>
       (lcp_intervals.loc_max
          <=> \A k \in Assembling : visits[k].lb = visits[k].rb - 1)
  /\ (pc = "steps" /\ lcp_intervals.pc = "running" /\ visits = <<>>)
       => lcp_intervals.loc_max

====
